---- MODULE Spec2Model ----
(***************************************************************************)
(* PhotoFrame background-removal services: the request handlers of         *)
(*   src/python-bg-vercel/api/remove-background-url.py  (handler "vurl")   *)
(*   src/python-bg-vercel/api/remove-background.py      (handler "vbg")    *)
(*   src/python-bg-service/app.py             (handlers "furl", "ffile")   *)
(*   src/python-bg-service/main.py                      (handler "murl")   *)
(* as one state machine.  Text is a sequence of one-character strings,     *)
(* decoded image bytes are sequences of integers 0..255, and a multipart   *)
(* body is a sequence of tokens, each standing for one run of bytes.       *)
(* Spec is the services with api_urls as written; SpecLists runs the same  *)
(* steps with any list of the endpoints in the place of api_urls; SpecPair *)
(* runs two requests at once.                                              *)
(***************************************************************************)
EXTENDS Integers, Sequences, FiniteSets, TLC

\* ------------------------------------------------------------------ bounds

\* Longest byte string a client encodes into a data URL.
MaxBytes == 3

\* Longest body of the first part of a multipart upload, in tokens.
MaxPartBody == 2

\* ------------------------------------------------------- text primitives

\* str.startswith / bytes.startswith
StartsWith(s, p) == Len(s) >= Len(p) /\ SubSeq(s, 1, Len(p)) = p

\* bytes.endswith
EndsWith(s, p) == Len(s) >= Len(p) /\ SubSeq(s, Len(s) - Len(p) + 1, Len(s)) = p

\* str.find / bytes.find, 1-based: the first index at which p occurs in s, 0
\* when it does not occur (Python's -1).
Find(s, p) ==
  LET hits == {k \in 1..(Len(s) - Len(p) + 1) : SubSeq(s, k, k + Len(p) - 1) = p}
  IN  IF hits = {} THEN 0 ELSE CHOOSE k \in hits : \A j \in hits : k <= j

\* `p in s` for bytes and str
Contains(s, p) == Find(s, p) # 0

\* s.split(sep): every piece between occurrences of sep, left to right.
RECURSIVE Split(_, _)
Split(s, sep) ==
  LET k == Find(s, sep)
  IN  IF k = 0 THEN <<s>>
      ELSE <<SubSeq(s, 1, k - 1)>> \o Split(SubSeq(s, k + Len(sep), Len(s)), sep)

\* image_data.rsplit(',', 1), the split the handlers do not make: on the last
\* comma.
SplitLastComma(s) ==
  LET hits == {k \in 1..Len(s) : s[k] = ","}
  IN  IF hits = {} THEN <<s>>
      ELSE LET k == CHOOSE k \in hits : \A j \in hits : k >= j
           IN  <<SubSeq(s, 1, k - 1), SubSeq(s, k + 1, Len(s))>>

\* image_data.split(',', 1): at most one split, on the first comma.
SplitFirstComma(s) ==
  LET k == Find(s, <<",">>)
  IN  IF k = 0 THEN <<s>>
      ELSE <<SubSeq(s, 1, k - 1), SubSeq(s, k + 1, Len(s))>>

\* ---------------------------------------------------------------- base64

B64Alphabet ==
  <<"A","B","C","D","E","F","G","H","I","J","K","L","M","N","O","P",
    "Q","R","S","T","U","V","W","X","Y","Z","a","b","c","d","e","f",
    "g","h","i","j","k","l","m","n","o","p","q","r","s","t","u","v",
    "w","x","y","z","0","1","2","3","4","5","6","7","8","9","+","/">>

B64Pad == "="

\* The 6-bit value of a base64 character, 64 for any other character.
B64Value(c) ==
  IF \E k \in 1..Len(B64Alphabet) : B64Alphabet[k] = c
  THEN (CHOOSE k \in 1..Len(B64Alphabet) : B64Alphabet[k] = c) - 1
  ELSE Len(B64Alphabet)

B64Char(v) == B64Alphabet[v + 1]

\* base64.b64encode(output_data).decode('utf-8'): three bytes to four
\* characters, the last group padded with "=".
RECURSIVE B64Encode(_)
B64Encode(b) ==
  IF Len(b) = 0 THEN <<>>
  ELSE IF Len(b) = 1 THEN
    <<B64Char(b[1] \div 4), B64Char((b[1] % 4) * 16), B64Pad, B64Pad>>
  ELSE IF Len(b) = 2 THEN
    <<B64Char(b[1] \div 4), B64Char((b[1] % 4) * 16 + b[2] \div 16),
      B64Char((b[2] % 16) * 4), B64Pad>>
  ELSE
    <<B64Char(b[1] \div 4), B64Char((b[1] % 4) * 16 + b[2] \div 16),
      B64Char((b[2] % 16) * 4 + b[3] \div 64), B64Char(b[3] % 64)>>
    \o B64Encode(SubSeq(b, 4, Len(b)))

Ok(v) == [ok |-> TRUE, val |-> v]
Raise(e) == [ok |-> FALSE, err |-> e]

\* binascii.a2b_base64 in its default (non-strict) mode, as base64.b64decode
\* calls it: characters outside the alphabet are skipped, a pad sequence that
\* completes a quad ends the decoding, and a quad left open at the end of the
\* input raises binascii.Error.  quad is the position in the current quad,
\* left the bits carried over, pads the pads seen in a row, out the bytes
\* written so far.
RECURSIVE A2B(_, _, _, _, _, _)
A2B(s, k, quad, left, pads, out) ==
  IF k > Len(s) THEN
    IF quad # 0 THEN Raise("binascii.Error") ELSE Ok(out)
  ELSE IF s[k] = B64Pad THEN
    IF quad >= 2 /\ quad + pads + 1 >= 4 THEN Ok(out)
    ELSE A2B(s, k + 1, quad, left, IF quad >= 2 THEN pads + 1 ELSE pads, out)
  ELSE IF B64Value(s[k]) >= 64 THEN A2B(s, k + 1, quad, left, pads, out)
  ELSE LET v == B64Value(s[k])
       IN  CASE quad = 0 -> A2B(s, k + 1, 1, v, 0, out)
             [] quad = 1 ->
                  A2B(s, k + 1, 2, v % 16, 0, Append(out, left * 4 + v \div 16))
             [] quad = 2 ->
                  A2B(s, k + 1, 3, v % 4, 0, Append(out, left * 16 + v \div 4))
             [] quad = 3 -> A2B(s, k + 1, 0, 0, 0, Append(out, left * 64 + v))

\* base64.b64decode(encoded)
B64Decode(s) == A2B(s, 1, 0, 0, 0, <<>>)


\* ------------------------------------------------------------- multipart

CRLF == "\r\n"

\* The bytes of a multipart body, one token per run of bytes.
Dashes == "--"
FilenameEq == "filename="
ContentTypeImage == "Content-Type: image/"
ContentTypeText == "Content-Type: text/"
Disposition == "Content-Disposition: form-data; name="
BoundaryEq == "boundary="
Quote == "\""
MultipartFormData == "multipart/form-data"
ApplicationJson == "application/json"

\* One turn of parse_multipart's loop: <<file_data>> when the part is taken,
\* <<>> when the loop moves on.
parse_multipart_part(part) ==
  IF Contains(part, <<FilenameEq>>) /\ Contains(part, <<ContentTypeImage>>)
  THEN LET header_end == Find(part, <<CRLF, CRLF>>)
       IN  IF header_end # 0
           THEN LET file_data == SubSeq(part, header_end + 2, Len(part))
                IN  IF EndsWith(file_data, <<CRLF>>)
                    THEN <<SubSeq(file_data, 1, Len(file_data) - 1)>>
                    ELSE <<file_data>>
           ELSE <<>>
  ELSE <<>>

RECURSIVE parse_multipart_loop(_)
parse_multipart_loop(parts) ==
  IF Len(parts) = 0 THEN Raise("Failed to parse multipart data")
  ELSE LET got == parse_multipart_part(Head(parts))
       IN  IF got # <<>> THEN Ok(got[1]) ELSE parse_multipart_loop(Tail(parts))

\* handler.parse_multipart(data, content_type)
parse_multipart(data, content_type) ==
  LET pieces == Split(content_type, <<BoundaryEq>>)
  IN  IF Len(pieces) < 2 THEN Raise("Failed to parse multipart data")
      ELSE LET raw == pieces[2]
               boundary ==
                 IF StartsWith(raw, <<Quote>>) /\ EndsWith(raw, <<Quote>>)
                 THEN SubSeq(raw, 2, Len(raw) - 1) ELSE raw
           IN  parse_multipart_loop(Split(data, <<Dashes>> \o boundary))

\* ---------------------------------------------------------- client inputs

DataImagePrefix == <<"d","a","t","a",":","i","m","a","g","e","/">>
HttpPrefix == <<"h","t","t","p">>
Base64Marker == <<";","b","a","s","e","6","4">>
PngSubtype == <<"p","n","g">>

\* Image MIME subtypes a client names in a data URL.
Subtypes == {PngSubtype, <<"g","i","f">>}

\* Byte values the sampled byte strings are made of.
ByteSample == {0, 65, 255}

RECURSIVE SeqsUpTo(_, _)
SeqsUpTo(S, n) ==
  IF n = 0 THEN {<<>>}
  ELSE LET shorter == SeqsUpTo(S, n - 1)
       IN  shorter \cup {Append(q, x) : q \in {t \in shorter : Len(t) = n - 1}, x \in S}

ByteStrings == SeqsUpTo(ByteSample, MaxBytes)

\* "data:image/<subtype>;base64,<payload>"
DataUrl(subtype, payload) ==
  DataImagePrefix \o subtype \o Base64Marker \o <<",">> \o payload

\* What a client puts after the comma besides a well-formed encoding: broken
\* padding, a lone character, a second comma, data after the padding, junk.
OddPayloads ==
  { <<"Q","Q","=">>, <<"Q">>, <<"Q","U",",","J","D">>,
    <<"Q","Q","=","=","Q","U","J","D">>, <<"!","!">> }

\* image_data values: well-formed data URLs, data URLs with an odd payload,
\* data URLs with no comma, http URLs, a string with no scheme, and "".
WellFormedDataUrls == {DataUrl(m, B64Encode(b)) : m \in Subtypes, b \in ByteStrings}
OddDataUrls == {DataUrl(PngSubtype, q) : q \in OddPayloads}
NoCommaDataUrls ==
  { DataImagePrefix \o PngSubtype \o Base64Marker,
    DataImagePrefix \o PngSubtype \o Base64Marker \o <<"Q">>,
    DataImagePrefix }
HttpUrls == { HttpPrefix \o <<":","/","/","h","/","a">> }
OtherStrings == { <<"a","b","c">>, <<>> }

ImageDataValues ==
  WellFormedDataUrls \cup OddDataUrls \cup NoCommaDataUrls \cup HttpUrls \cup OtherStrings

\* The boundary a multipart client announces, and its Content-Type header.
Boundary == <<"XX">>
MultipartContentType == <<MultipartFormData, "; ", BoundaryEq>> \o Boundary
QuotedMultipartContentType ==
  <<MultipartFormData, "; ", BoundaryEq, Quote>> \o Boundary \o <<Quote>>
JsonContentType == <<ApplicationJson>>
OctetContentType == <<"application/octet-stream">>

\* Part headers: a plain form field, a text file, an image file.
FieldHeaders == <<Disposition, "\"note\"">>
TextFileHeaders ==
  <<Disposition, "\"doc\"", "; ", FilenameEq, "\"a.txt\"", CRLF, ContentTypeText, "plain">>
ImageFileHeaders ==
  <<Disposition, "\"image\"", "; ", FilenameEq, "\"a.png\"", CRLF, ContentTypeImage, "png">>

\* One part on the wire: the delimiter line, the headers, a blank line, the
\* body, and the line break that precedes the next delimiter.
Part(headers, body) ==
  <<Dashes>> \o Boundary \o <<CRLF>> \o headers \o <<CRLF, CRLF>> \o body \o <<CRLF>>

CloseDelimiter == <<Dashes>> \o Boundary \o <<Dashes, CRLF>>

\* Tokens the body of a non-image part is made of: it may quote header text.
FirstBodyTokens == {"x", FilenameEq, ContentTypeImage, CRLF}
FirstBodies == SeqsUpTo(FirstBodyTokens, MaxPartBody)

\* Bodies of the image part: they may hold and end with line breaks.
ImageBodies == { <<"P">>, <<"P", CRLF>>, <<"P", CRLF, CRLF, "N">>, <<>> }

\* Uploads of two parts of which only the second is an image file.
TwoPartUploads ==
  { [first |-> Part(h, b1), second |-> b2,
     data |-> Part(h, b1) \o Part(ImageFileHeaders, b2) \o CloseDelimiter] :
    h \in {FieldHeaders, TextFileHeaders}, b1 \in FirstBodies, b2 \in ImageBodies }

\* Uploads with no image file part at all.
NoImageUploads ==
  { [first |-> Part(FieldHeaders, <<"x">>), second |-> <<>>,
     data |-> Part(FieldHeaders, <<"x">>) \o CloseDelimiter] }

\* ----------------------------------------------------------------- state

None == "None"

\* Request slots: the requests in progress at once.
Reqs == {1}

\* api_urls of remove-background-url.py, by model name.
ApiUrls == <<"briaai/RMBG-1.4", "ZhengPeng7/BiRefNet_T4P", "Xenova/modnet">>

VARIABLES
  api_urls,    \* the endpoint list remove-background-url.py walks
  bg_session,  \* app.py's global model handle: None or "session"
  rembg,       \* remove-background.py's module global: None or "module"
  svc,         \* app.py's process: "boot", "serving" or "exited"
  rq           \* per request slot: the handler's locals and what it did

vars == <<api_urls, bg_session, rembg, svc, rq>>

\* A request on the wire.  empty: Content-Length is 0; json: how the body
\* parses ("invalid", "nofield": no image_data key, "ok", "none": not JSON);
\* data: the body of a multipart or raw upload; second: <<body>> of the image
\* part the client put second in a two-part upload, else <<>>; file: <<>> or
\* <<f>>, the file sent under the form name "image", with its filename and
\* content.
NoRequest ==
  [ctype |-> <<>>, empty |-> TRUE, json |-> "none", image_data |-> <<>>,
   data |-> <<>>, second |-> <<>>, file |-> <<>>]

JsonRequests ==
  { [NoRequest EXCEPT !.ctype = JsonContentType, !.empty = FALSE, !.json = "ok",
                      !.image_data = v] : v \in ImageDataValues }
  \cup { [NoRequest EXCEPT !.ctype = JsonContentType, !.empty = FALSE, !.json = "nofield"] }

InvalidJsonRequests ==
  { [NoRequest EXCEPT !.ctype = JsonContentType, !.empty = FALSE, !.json = "invalid"] }

MultipartRequests ==
  { [NoRequest EXCEPT !.ctype = ct, !.empty = FALSE, !.data = u.data,
                      !.second = <<u.second>>] :
    ct \in {MultipartContentType, QuotedMultipartContentType}, u \in TwoPartUploads }
  \cup { [NoRequest EXCEPT !.ctype = ct, !.empty = FALSE, !.data = u.data] :
         ct \in {MultipartContentType, <<MultipartFormData>>}, u \in NoImageUploads }

RawRequests ==
  { [NoRequest EXCEPT !.ctype = OctetContentType, !.empty = FALSE, !.data = <<"P">>],
    NoRequest }

\* Uploads to app.py's /remove-background: request.files without "image",
\* with an "image" of empty filename, and with an image file.
FileRequests ==
  { [NoRequest EXCEPT !.ctype = MultipartContentType, !.empty = FALSE, !.file = f] :
    f \in { <<>>, <<[filename |-> "", content |-> <<>>]>>,
            <<[filename |-> "a.png", content |-> <<"P">>]>> } }

\* The requests each handler is sent.
RequestsFor(h) ==
  CASE h = "vurl" -> JsonRequests \cup InvalidJsonRequests
    [] h = "vbg"  -> JsonRequests \cup InvalidJsonRequests \cup MultipartRequests
                     \cup RawRequests
    [] h = "furl" -> JsonRequests
    [] h = "ffile" -> FileRequests
    [] h = "murl" -> JsonRequests

Handlers == {"vurl", "vbg", "furl", "ffile", "murl"}

\* A slot with no request in it.  input_data: <<>> or <<value>>; body: the
\* JSON bodies written to the response, in order; status 0: no status line sent; sent, replies: the endpoints posted to and
\* their answers, in order; fetched: the answers to the input's HTTP GET;
\* engine: the buffers handed to rembg.remove; removed: what rembg.remove
\* returned or raised; outcome: how the request ended,
\* in the terms of the error taxonomy ("Success", "DecodeError",
\* "ConfigurationError", "BackendError", "AllBackendsFailed", "BadRequest").
Idle ==
  [handler |-> "none", pc |-> "idle", req |-> NoRequest, input_data |-> <<>>,
   status |-> 0, body |-> <<>>, sent |-> <<>>, replies |-> <<>>,
   fetched |-> <<>>, engine |-> <<>>, removed |-> <<>>, outcome |-> "none"]

\* Bytes a backend answers with.
OutBytes == { <<7>>, <<7, 8>> }

\* What requests.post yields: a response with its status code and content, or
\* an exception (timeout, connection error).
PostOutcomes ==
  { [exc |-> "none", code |-> 200, content |-> c] : c \in OutBytes }
  \cup { [exc |-> "none", code |-> 503, content |-> <<>>],
         [exc |-> "Timeout", code |-> 0, content |-> <<>>] }

\* What the GET of an image URL yields: the final response, or a network error.
FetchOutcomes ==
  { [exc |-> "none", code |-> 200, content |-> <<80>>],
    [exc |-> "none", code |-> 304, content |-> <<>>],
    [exc |-> "none", code |-> 404, content |-> <<60>>],
    [exc |-> "ConnectionError", code |-> 0, content |-> <<>>] }

\* What rembg.remove yields: the cut-out image, or an exception on bytes it
\* cannot read as an image.
RemoveOutcomes == { Ok(c) : c \in OutBytes } \cup { Raise("cannot identify image file") }

AllFailedMessage == "All HuggingFace models failed"
UnpackMessage == "not enough values to unpack (expected 2, got 1)"
NoRembgMessage == "rembg library not available"
NoSessionMessage == "rembg session not initialized"

\* {"success": False, "error": ...}
Failure(e) == [success |-> FALSE, error |-> e]

\* {"error": ...}, main.py's 400 answers
ErrorOnly(e) == [error |-> e]

\* {"success": True, "image": f"data:image/png;base64,{output_b64}", "message": ...}
Success(output_data) ==
  [success |-> TRUE, image |-> DataUrl(PngSubtype, B64Encode(output_data)),
   message |-> "Background removed successfully"]

\* The handler writes its answer and returns.
Respond(s, st, b, kind) ==
  [s EXCEPT !.pc = "done", !.status = st, !.body = Append(@, b), !.outcome = kind]

\* The decoding as image_data.split(',')[-1] would have it: the payload is the
\* last piece, which is the whole string when there is no comma.
decode_data_url_last_piece(image_data) ==
  LET pieces == Split(image_data, <<",">>)
  IN  B64Decode(pieces[Len(pieces)])

\* header, encoded = image_data.split(',', 1); input_data = base64.b64decode(encoded)
decode_data_url(image_data) ==
  LET pieces == SplitFirstComma(image_data)
  IN  IF Len(pieces) # 2 THEN Raise(UnpackMessage)
      ELSE B64Decode(pieces[2])

\* urllib's HTTPErrorProcessor: a final status outside 2xx raises HTTPError.
urlopen_raises(o) == o.exc # "none" \/ ~(200 <= o.code /\ o.code < 300)

\* requests' Response.raise_for_status: raises HTTPError for 4xx and 5xx.
raise_for_status_raises(o) == 400 <= o.code /\ o.code < 600

\* A request arrives at one of the handlers; app.py answers only once its
\* process serves.
Receive(r) ==
  /\ rq[r].pc = "idle"
  /\ \E h \in Handlers : \E q \in RequestsFor(h) :
       /\ h \in {"furl", "ffile"} => svc = "serving"
       /\ rq' = [rq EXCEPT ![r] = [Idle EXCEPT !.handler = h, !.pc = "start", !.req = q]]
  /\ UNCHANGED <<api_urls, bg_session, rembg, svc>>

\* The connection closes; the slot is free again.
Close(r) ==
  /\ rq[r].pc = "done"
  /\ rq' = [rq EXCEPT ![r] = Idle]
  /\ UNCHANGED <<api_urls, bg_session, rembg, svc>>

\* ------------------------- python-bg-vercel/api/remove-background-url.py

\* The loop as it would run without its break: the next endpoint is posted to
\* after a 200 as well.
vurl_next_post_no_break(s, o) ==
  LET t == [s EXCEPT !.replies = Append(@, o)]
  IN  IF Len(t.sent) < Len(api_urls)
      THEN [t EXCEPT !.sent = Append(@, api_urls[Len(@) + 1])]
      ELSE IF \E k \in 1..Len(t.replies) :
                t.replies[k].exc = "none" /\ t.replies[k].code = 200
           THEN Respond(t, 200, Success(o.content), "Success")
           ELSE Respond(t, 200, Failure(AllFailedMessage), "AllBackendsFailed")

\* The loop as it would run with a retry: after the last endpoint has failed
\* it is posted to once more.
vurl_next_post_retry(s, o) ==
  LET t == [s EXCEPT !.replies = Append(@, o)]
  IN  IF o.exc = "none" /\ o.code = 200
      THEN Respond(t, 200, Success(o.content), "Success")
      ELSE IF Len(t.sent) < Len(api_urls) + 1
           THEN [t EXCEPT !.sent =
                   Append(@, api_urls[IF Len(@) < Len(api_urls) THEN Len(@) + 1
                                      ELSE Len(api_urls)])]
           ELSE Respond(t, 200, Failure(AllFailedMessage), "AllBackendsFailed")

\* The loop over api_urls from the point where a post returns o: a 200 ends
\* the loop and the request; anything else moves on to the next endpoint, and
\* past the last one the handler raises and answers with the error.
vurl_next_post(s, o) ==
  LET t == [s EXCEPT !.replies = Append(@, o)]
  IN  IF o.exc = "none" /\ o.code = 200
      THEN Respond(t, 200, Success(o.content), "Success")
      ELSE IF Len(t.sent) < Len(api_urls)
           THEN [t EXCEPT !.sent = Append(@, api_urls[Len(@) + 1])]
           ELSE Respond(t, 200, Failure(AllFailedMessage), "AllBackendsFailed")

\* The handler past its input: the loop's first post, or with no endpoint to
\* post to the raise that follows the loop.
vurl_dispatch(s, bytes) ==
  LET t == [s EXCEPT !.input_data = <<bytes>>]
  IN  IF Len(api_urls) = 0
      THEN Respond(t, 200, Failure(AllFailedMessage), "AllBackendsFailed")
      ELSE [t EXCEPT !.pc = "posting", !.sent = <<api_urls[1]>>]

\* The inner except: the error is written and the handler returns.
vurl_inner_except(s, e, kind) ==
  Respond(s, 200, Failure("Failed to process image data: " \o e), kind)

\* do_POST up to the point where it waits on its first network call.
vurl_do_POST(r) ==
  /\ rq[r].pc = "start" /\ rq[r].handler = "vurl"
  /\ LET s == [rq[r] EXCEPT !.status = 200]
         q == s.req
     IN  rq' = [rq EXCEPT ![r] =
           IF q.json = "invalid" THEN vurl_inner_except(s, "Expecting value", "DecodeError")
           ELSE IF q.json = "nofield" \/ q.image_data = <<>>
             THEN vurl_inner_except(s, "No image_data provided", "BadRequest")
           ELSE IF StartsWith(q.image_data, DataImagePrefix)
             THEN LET d == decode_data_url(q.image_data)
                  IN  IF d.ok THEN vurl_dispatch(s, d.val)
                      ELSE vurl_inner_except(s, d.err, "DecodeError")
           ELSE IF StartsWith(q.image_data, HttpPrefix)
             THEN [s EXCEPT !.pc = "fetching"]
           ELSE vurl_inner_except(s, "unknown url type", "DecodeError")]
  /\ UNCHANGED <<api_urls, bg_session, rembg, svc>>

\* urllib.request.urlopen(image_data) returns or raises.
vurl_urlopen(r) ==
  /\ rq[r].pc = "fetching" /\ rq[r].handler = "vurl"
  /\ \E o \in FetchOutcomes :
       LET s == [rq[r] EXCEPT !.fetched = Append(@, o)]
       IN  rq' = [rq EXCEPT ![r] =
             IF urlopen_raises(o) THEN vurl_inner_except(s, "HTTP Error", "DecodeError")
             ELSE vurl_dispatch(s, o.content)]
  /\ UNCHANGED <<api_urls, bg_session, rembg, svc>>

\* requests.post(api_url, ..., timeout=30) returns or raises.
vurl_requests_post(r) ==
  /\ rq[r].pc = "posting" /\ rq[r].handler = "vurl"
  /\ \E o \in PostOutcomes : rq' = [rq EXCEPT ![r] = vurl_next_post(rq[r], o)]
  /\ UNCHANGED <<api_urls, bg_session, rembg, svc>>

\* -------------------------------- the engine call, in the three services

\* output_data = rembg.remove(input_data ...) is entered.
call_remove(s, bytes) ==
  [s EXCEPT !.input_data = <<bytes>>, !.pc = "removing", !.engine = Append(@, bytes)]

\* ----------------------------- python-bg-vercel/api/remove-background.py

\* The handler past its input: the import guard's check, then the engine.
vbg_process(s, bytes) ==
  IF rembg = None
  THEN Respond([s EXCEPT !.input_data = <<bytes>>], 200, Failure(NoRembgMessage),
               "ConfigurationError")
  ELSE call_remove(s, bytes)

\* The except of the JSON branch as it would run without its return: the
\* error is written, control falls through to the engine with input_data
\* unbound, and the outer except writes a second answer.
vbg_inner_except_no_return(s, e) ==
  Respond(Respond(s, 200, Failure("Failed to parse JSON: " \o e), "DecodeError"),
          200,
          Failure(IF rembg = None THEN NoRembgMessage
                  ELSE "local variable 'input_data' referenced before assignment"),
          "DecodeError")

\* The except of the JSON branch.
vbg_inner_except(s, e) ==
  Respond(s, 200, Failure("Failed to parse JSON: " \o e), "DecodeError")

\* do_POST up to its first call out of the process.
vbg_do_POST(r) ==
  /\ rq[r].pc = "start" /\ rq[r].handler = "vbg"
  /\ LET s == [rq[r] EXCEPT !.status = 200]
         q == s.req
     IN  rq' = [rq EXCEPT ![r] =
           IF q.empty THEN Respond(s, 200, Failure("No data provided"), "BadRequest")
           ELSE IF Contains(q.ctype, <<MultipartFormData>>)
             THEN LET d == parse_multipart(q.data, q.ctype)
                  IN  IF d.ok THEN vbg_process(s, d.val)
                      ELSE Respond(s, 200, Failure(d.err), "DecodeError")
           ELSE IF Contains(q.ctype, <<ApplicationJson>>)
             THEN IF q.json # "ok" /\ q.json # "nofield"
                    THEN vbg_inner_except(s, "Expecting value")
                  ELSE IF StartsWith(q.image_data, DataImagePrefix)
                    THEN LET d == decode_data_url(q.image_data)
                         IN  IF d.ok THEN vbg_process(s, d.val)
                             ELSE vbg_inner_except(s, d.err)
                  ELSE IF StartsWith(q.image_data, HttpPrefix)
                    THEN [s EXCEPT !.pc = "fetching"]
                  ELSE vbg_inner_except(s, "unknown url type")
           ELSE vbg_process(s, q.data)]
  /\ UNCHANGED <<api_urls, bg_session, rembg, svc>>

\* urllib.request.urlopen(image_data) returns or raises.
vbg_urlopen(r) ==
  /\ rq[r].pc = "fetching" /\ rq[r].handler = "vbg"
  /\ \E o \in FetchOutcomes :
       LET s == [rq[r] EXCEPT !.fetched = Append(@, o)]
       IN  rq' = [rq EXCEPT ![r] =
             IF urlopen_raises(o) THEN vbg_inner_except(s, "HTTP Error")
             ELSE vbg_process(s, o.content)]
  /\ UNCHANGED <<api_urls, bg_session, rembg, svc>>

\* rembg.remove(input_data) returns or raises.
vbg_rembg_remove(r) ==
  /\ rq[r].pc = "removing" /\ rq[r].handler = "vbg"
  /\ \E o \in RemoveOutcomes :
       LET s == [rq[r] EXCEPT !.removed = Append(@, o)]
       IN  rq' = [rq EXCEPT ![r] =
             IF o.ok THEN Respond(s, 200, Success(o.val), "Success")
             ELSE Respond(s, 200, Failure(o.err), "BackendError")]
  /\ UNCHANGED <<api_urls, bg_session, rembg, svc>>

\* ------------------------------------------------ python-bg-service/app.py

\* init_rembg() succeeds and the __main__ block starts the server.
init_rembg ==
  /\ svc = "boot"
  /\ bg_session' = "session"
  /\ svc' = "serving"
  /\ UNCHANGED <<api_urls, rembg, rq>>

\* init_rembg() fails: the handle stays None and the process exits.
init_rembg_fails ==
  /\ svc = "boot"
  /\ svc' = "exited"
  /\ UNCHANGED <<api_urls, bg_session, rembg, rq>>

\* The module is served by a WSGI server that imports it: the __main__ block,
\* and with it init_rembg(), never runs.
serve_imported ==
  /\ svc = "boot"
  /\ svc' = "serving"
  /\ UNCHANGED <<api_urls, bg_session, rembg, rq>>

\* The handler's except: a 500 with the exception's text.
app_except(s, e, kind) == Respond(s, 500, Failure(e), kind)

\* remove_background_url() up to its first call out of the process.
app_remove_background_url(r) ==
  /\ rq[r].pc = "start" /\ rq[r].handler = "furl"
  /\ LET s == rq[r]
         q == s.req
     IN  rq' = [rq EXCEPT ![r] =
           IF bg_session = None
             THEN Respond(s, 500, Failure(NoSessionMessage), "ConfigurationError")
           ELSE IF q.json = "nofield"
             THEN Respond(s, 400, Failure("No image_data provided"), "BadRequest")
           ELSE IF StartsWith(q.image_data, DataImagePrefix)
             THEN LET d == decode_data_url(q.image_data)
                  IN  IF d.ok THEN call_remove(s, d.val) ELSE app_except(s, d.err, "DecodeError")
           ELSE IF StartsWith(q.image_data, HttpPrefix)
             THEN [s EXCEPT !.pc = "fetching"]
           ELSE Respond(s, 400, Failure("Invalid image_data format"), "BadRequest")]
  /\ UNCHANGED <<api_urls, bg_session, rembg, svc>>

\* requests.get(image_data) returns or raises; the response's content is the
\* input whatever its status.
app_requests_get(r) ==
  /\ rq[r].pc = "fetching" /\ rq[r].handler = "furl"
  /\ \E o \in FetchOutcomes :
       LET s == [rq[r] EXCEPT !.fetched = Append(@, o)]
       IN  rq' = [rq EXCEPT ![r] =
             IF o.exc # "none" THEN app_except(s, o.exc, "DecodeError")
             ELSE call_remove(s, o.content)]
  /\ UNCHANGED <<api_urls, bg_session, rembg, svc>>

\* rembg.remove(input_data, session=bg_session) returns or raises.
app_rembg_remove(r) ==
  /\ rq[r].pc = "removing" /\ rq[r].handler = "furl"
  /\ \E o \in RemoveOutcomes :
       LET s == [rq[r] EXCEPT !.removed = Append(@, o)]
       IN  rq' = [rq EXCEPT ![r] =
             IF o.ok THEN Respond(s, 200, Success(o.val), "Success")
             ELSE app_except(s, o.err, "BackendError")]
  /\ UNCHANGED <<api_urls, bg_session, rembg, svc>>

\* remove_background_file() as it would run if it made up for a missing
\* handle by calling init_rembg() itself.
app_remove_background_file_lazy_init(r) ==
  /\ rq[r].pc = "start" /\ rq[r].handler = "ffile"
  /\ LET s == rq[r]
         q == s.req
     IN  rq' = [rq EXCEPT ![r] =
           IF q.file = <<>>
             THEN Respond(s, 400, Failure("No image file provided"), "BadRequest")
           ELSE IF q.file[1].filename = ""
             THEN Respond(s, 400, Failure("No file selected"), "BadRequest")
           ELSE call_remove(s, q.file[1].content)]
  /\ bg_session' = "session"
  /\ UNCHANGED <<api_urls, rembg, svc>>

\* remove_background_file() up to the engine call.
app_remove_background_file(r) ==
  /\ rq[r].pc = "start" /\ rq[r].handler = "ffile"
  /\ LET s == rq[r]
         q == s.req
     IN  rq' = [rq EXCEPT ![r] =
           IF bg_session = None
             THEN Respond(s, 500, Failure(NoSessionMessage), "ConfigurationError")
           ELSE IF q.file = <<>>
             THEN Respond(s, 400, Failure("No image file provided"), "BadRequest")
           ELSE IF q.file[1].filename = ""
             THEN Respond(s, 400, Failure("No file selected"), "BadRequest")
           ELSE call_remove(s, q.file[1].content)]
  /\ UNCHANGED <<api_urls, bg_session, rembg, svc>>

\* rembg.remove(input_data, session=bg_session) of remove_background_file()
\* returns or raises.
app_file_rembg_remove(r) ==
  /\ rq[r].pc = "removing" /\ rq[r].handler = "ffile"
  /\ \E o \in RemoveOutcomes :
       LET s == [rq[r] EXCEPT !.removed = Append(@, o)]
       IN  rq' = [rq EXCEPT ![r] =
             IF o.ok THEN Respond(s, 200, Success(o.val), "Success")
             ELSE app_except(s, o.err, "BackendError")]
  /\ UNCHANGED <<api_urls, bg_session, rembg, svc>>

\* ----------------------------------------------- python-bg-service/main.py

\* The handler's except: a 500 with the exception's text.
main_except(s, e, kind) == Respond(s, 500, Failure(e), kind)

\* remove_background_url() up to its first call out of the process.
main_remove_background_url(r) ==
  /\ rq[r].pc = "start" /\ rq[r].handler = "murl"
  /\ LET s == rq[r]
         q == s.req
     IN  rq' = [rq EXCEPT ![r] =
           IF q.json = "nofield"
             THEN Respond(s, 400, ErrorOnly("No image_data provided"), "BadRequest")
           ELSE IF StartsWith(q.image_data, DataImagePrefix)
             THEN LET d == decode_data_url(q.image_data)
                  IN  IF d.ok THEN call_remove(s, d.val) ELSE main_except(s, d.err, "DecodeError")
           ELSE IF StartsWith(q.image_data, HttpPrefix)
             THEN [s EXCEPT !.pc = "fetching"]
           ELSE main_except(s, "Invalid URL: No scheme supplied", "DecodeError")]
  /\ UNCHANGED <<api_urls, bg_session, rembg, svc>>

\* requests.get(image_data) returns or raises, then response.raise_for_status().
main_requests_get(r) ==
  /\ rq[r].pc = "fetching" /\ rq[r].handler = "murl"
  /\ \E o \in FetchOutcomes :
       LET s == [rq[r] EXCEPT !.fetched = Append(@, o)]
       IN  rq' = [rq EXCEPT ![r] =
             IF o.exc # "none" THEN main_except(s, o.exc, "DecodeError")
             ELSE IF raise_for_status_raises(o) THEN main_except(s, "HTTPError", "DecodeError")
             ELSE call_remove(s, o.content)]
  /\ UNCHANGED <<api_urls, bg_session, rembg, svc>>

\* rembg.remove(input_data, session=session) returns or raises.
main_rembg_remove(r) ==
  /\ rq[r].pc = "removing" /\ rq[r].handler = "murl"
  /\ \E o \in RemoveOutcomes :
       LET s == [rq[r] EXCEPT !.removed = Append(@, o)]
       IN  rq' = [rq EXCEPT ![r] =
             IF o.ok THEN Respond(s, 200, Success(o.val), "Success")
             ELSE main_except(s, o.err, "BackendError")]
  /\ UNCHANGED <<api_urls, bg_session, rembg, svc>>

\* ------------------------------------------------------- specifications

\* Every step a handler takes on a request it was handed, and the close.
Handle(r) ==
  \/ Close(r)
  \/ vurl_do_POST(r)
  \/ vurl_urlopen(r)
  \/ vurl_requests_post(r)
  \/ vbg_do_POST(r)
  \/ vbg_urlopen(r)
  \/ vbg_rembg_remove(r)
  \/ app_remove_background_url(r)
  \/ app_requests_get(r)
  \/ app_rembg_remove(r)
  \/ app_remove_background_file(r)
  \/ app_file_rembg_remove(r)
  \/ main_remove_background_url(r)
  \/ main_requests_get(r)
  \/ main_rembg_remove(r)

\* Every step one request can take.
Step(r) == Receive(r) \/ Handle(r)

Startup == init_rembg \/ init_rembg_fails \/ serve_imported

\* The services as deployed, over the module globals each import leaves; one
\* request at a time.
Init ==
  /\ api_urls = ApiUrls
  /\ bg_session = None
  /\ rembg \in {None, "module"}
  /\ svc = "boot"
  /\ rq = [r \in Reqs |-> Idle]

Next == Startup \/ \E r \in Reqs : Step(r)

Spec == Init /\ [][Next]_vars

\* The endpoint lists the loop over api_urls is run with: every ordering of
\* every selection of the three endpoints, the empty list among them.
EndpointLists ==
  { q \in SeqsUpTo({ApiUrls[k] : k \in 1..Len(ApiUrls)}, Len(ApiUrls)) :
      \A a, b \in 1..Len(q) : a # b => q[a] # q[b] }

InitLists ==
  /\ api_urls \in EndpointLists
  /\ bg_session = None
  /\ rembg = "module"
  /\ svc = "boot"
  /\ rq = [r \in Reqs |-> Idle]

SpecLists == InitLists /\ [][Next]_vars

\* Two requests in progress at once, each at any of the handlers, their steps
\* interleaved in any order.
Pair == {1, 2}

\* image_data values the two requests are sent: a data URL, one with no
\* comma, an http URL.
PairImageData ==
  { DataUrl(PngSubtype, B64Encode(<<65>>)),
    DataImagePrefix \o PngSubtype \o Base64Marker } \cup HttpUrls

PairJsonRequests ==
  { [NoRequest EXCEPT !.ctype = JsonContentType, !.empty = FALSE, !.json = "ok",
                      !.image_data = v] : v \in PairImageData }

PairRequestsFor(h) ==
  CASE h = "vurl" -> PairJsonRequests
    [] h = "vbg"  -> PairJsonRequests \cup RawRequests
    [] h = "furl" -> PairJsonRequests
    [] h = "ffile" -> FileRequests
    [] h = "murl" -> PairJsonRequests

\* A request arrives while another may be in progress.
ReceivePair(r) ==
  /\ rq[r].pc = "idle"
  /\ \E h \in Handlers : \E q \in PairRequestsFor(h) :
       /\ h \in {"furl", "ffile"} => svc = "serving"
       /\ rq' = [rq EXCEPT ![r] = [Idle EXCEPT !.handler = h, !.pc = "start", !.req = q]]
  /\ UNCHANGED <<api_urls, bg_session, rembg, svc>>

InitPair ==
  /\ api_urls = ApiUrls
  /\ bg_session = None
  /\ rembg \in {None, "module"}
  /\ svc = "boot"
  /\ rq = [r \in Pair |-> Idle]

NextPair == Startup \/ \E r \in Pair : (ReceivePair(r) \/ Handle(r))

SpecPair == InitPair /\ [][NextPair]_vars

\* ------------------------------------------------------------- properties

\* A post that was answered with status 200.
Answered200(o) == o.exc = "none" /\ o.code = 200

\* A request the handler has begun to work on.
Begun(s) == s.pc # "idle" /\ s.pc # "start"

\* C1: the endpoints are posted to in the order of api_urls, and the first
\* one that answers 200 ends the pass: its content is the image of the
\* answer, it is the last endpoint posted to, and every post before it failed.
C1_FirstSuccessWins ==
  \A r \in Reqs :
    LET s == rq[r]
    IN  s.handler = "vurl" =>
          /\ Len(s.sent) <= Len(api_urls)
          /\ s.sent = SubSeq(api_urls, 1, Len(s.sent))
          /\ Len(s.replies) <= Len(s.sent)
          /\ \A k \in 1..Len(s.replies) :
               Answered200(s.replies[k]) =>
                 /\ k = Len(s.sent)
                 /\ s.pc = "done"
                 /\ s.body = <<Success(s.replies[k].content)>>
          /\ (s.pc = "done" /\ s.body[1].success) =>
               /\ s.replies # <<>>
               /\ Answered200(s.replies[Len(s.replies)])

\* C1's case: of three endpoints the first failed, the second answered 200
\* and the third was never posted to.
C1_Witness ==
  \E r \in Reqs :
    /\ rq[r].handler = "vurl" /\ rq[r].pc = "done"
    /\ Len(api_urls) = 3
    /\ Len(rq[r].sent) = 2 /\ Len(rq[r].replies) = 2
    /\ ~Answered200(rq[r].replies[1])
    /\ Answered200(rq[r].replies[2])
    /\ rq[r].body[1].success

\* The per-endpoint failure list an answer carries: its "attempted" entry.  The
\* bodies the handler writes hold success, image and message, or success and
\* error.
AttemptedBackends(b) == IF "attempted" \in DOMAIN b THEN b.attempted ELSE <<>>

\* C2: when an endpoint answers 200, the answer records the failures of
\* exactly the endpoints posted to before it, in order.
C2_FailuresBeforeSuccessRecorded ==
  \A r \in Reqs :
    LET s == rq[r]
    IN  (s.handler = "vurl" /\ s.pc = "done" /\ s.outcome = "Success") =>
          /\ Len(AttemptedBackends(s.body[1])) = Len(s.sent) - 1
          /\ \A k \in 1..Len(AttemptedBackends(s.body[1])) :
               AttemptedBackends(s.body[1])[k].backend = s.sent[k]

\* C3: when every endpoint has failed, the answer is a failure that lists
\* every configured endpoint, in the configured order.
C3_AllFailedListsEveryBackend ==
  \A r \in Reqs :
    LET s == rq[r]
    IN  (s.handler = "vurl" /\ s.pc = "done" /\ s.outcome = "AllBackendsFailed") =>
          /\ ~s.body[1].success
          /\ Len(AttemptedBackends(s.body[1])) = Len(api_urls)
          /\ \A k \in 1..Len(AttemptedBackends(s.body[1])) :
               AttemptedBackends(s.body[1])[k].backend = api_urls[k]

SinglePassState(s) ==
  /\ \A a, b \in 1..Len(s.sent) : a # b => s.sent[a] # s.sent[b]
  /\ Len(s.sent) <= Len(api_urls)
  /\ Len(s.sent) - Len(s.replies) \in {0, 1}
  /\ (Len(s.sent) - Len(s.replies) = 1) <=> (s.pc = "posting")

\* C5, in every step: a further post is sent only once every earlier one has
\* ended, and ended in failure; and a request that has been answered posts
\* nothing more.
SinglePassStep(s, t) ==
  /\ Len(t.sent) > Len(s.sent) =>
       /\ Len(t.sent) = Len(s.sent) + 1
       /\ Len(t.replies) = Len(s.sent)
       /\ \A k \in 1..Len(t.replies) : ~Answered200(t.replies[k])
  /\ s.pc = "done" => (t = s \/ t = Idle)

\* C5: a request makes one sequential pass over the endpoints.
C5_SingleSequentialPass ==
  /\ [](\A r \in Reqs : SinglePassState(rq[r]))
  /\ [][\A r \in Reqs : SinglePassStep(rq[r], rq'[r])]_vars

\* C5's case: all three endpoints were posted to once each, all failed, and
\* the request was answered with the failure.
C5_Witness ==
  \E r \in Reqs :
    /\ rq[r].handler = "vurl" /\ rq[r].pc = "done"
    /\ rq[r].sent = ApiUrls
    /\ Len(rq[r].replies) = Len(ApiUrls)
    /\ rq[r].outcome = "AllBackendsFailed"

\* An answer that reports success.
IsSuccess(b) == "success" \in DOMAIN b /\ b.success

\* The handler got as far as reading image_data: app.py only with its handle.
ReadsImageData(s) ==
  Begun(s) /\ s.req.json = "ok" /\ (s.handler = "furl" => bg_session # None)

\* C6: a data URL with no comma fails, in each of the four handlers: the
\* request is answered with a failure, no input buffer exists, and nothing was
\* fetched, posted or handed to the engine; and where the handler got to read
\* image_data, the failure is the split's unpacking error.
C6_NoCommaDataUrlFails ==
  \A r \in Reqs :
    LET s == rq[r]
    IN  ( /\ Begun(s) /\ s.req.json = "ok"
          /\ StartsWith(s.req.image_data, DataImagePrefix)
          /\ ~Contains(s.req.image_data, <<",">>) ) =>
          /\ s.pc = "done"
          /\ ~IsSuccess(s.body[1])
          /\ s.input_data = <<>>
          /\ s.sent = <<>> /\ s.engine = <<>> /\ s.fetched = <<>>
          /\ ReadsImageData(s) =>
               /\ s.outcome = "DecodeError"
               /\ s.body[1].error \in
                    { UnpackMessage, "Failed to process image data: " \o UnpackMessage,
                      "Failed to parse JSON: " \o UnpackMessage }

\* C6's case: app.py, with its model handle, has answered a data URL that has
\* a payload but no comma.
C6_Witness ==
  \E r \in Reqs :
    /\ rq[r].handler = "furl" /\ rq[r].pc = "done" /\ bg_session # None
    /\ rq[r].req.image_data = DataImagePrefix \o PngSubtype \o Base64Marker \o <<"Q">>
    /\ rq[r].body[1].error = UnpackMessage

\* C7: a request that ends on a decode error or for want of a backend or
\* model handle is answered with a 4xx status.
C7_DecodeAndConfigErrorsAre4xx ==
  \A r \in Reqs :
    LET s == rq[r]
    IN  (s.pc = "done" /\ s.outcome \in {"DecodeError", "ConfigurationError"}) =>
          (400 <= s.status /\ s.status < 500)

\* A GET that did not end in a 2xx response.
FetchFailed(o) == o.exc # "none" \/ ~(200 <= o.code /\ o.code < 300)

\* C8: when the GET of the image URL ends in a network error or a status
\* outside 2xx, the request ends on a decode error and the engine is handed
\* nothing.
C8_FailedFetchNeverReachesEngine ==
  \A r \in Reqs :
    LET s == rq[r]
    IN  \A k \in 1..Len(s.fetched) :
          FetchFailed(s.fetched[k]) =>
            /\ s.pc = "done"
            /\ s.outcome = "DecodeError"
            /\ s.engine = <<>> /\ s.sent = <<>>

\* C9: of a two-part upload whose second part alone is an image file, the
\* input buffer is the second part's body, whatever the first part's body holds.
C9_SecondPartBodyExtracted ==
  \A r \in Reqs :
    LET s == rq[r]
    IN  (s.handler = "vbg" /\ Begun(s) /\ s.req.second # <<>>) =>
          s.input_data = s.req.second

\* C10, the round trip: the data URL of any byte string b under any image
\* subtype is normalized to b.
RoundTrip(s) ==
  \A m \in Subtypes, b \in ByteStrings :
    s.req.image_data = DataUrl(m, B64Encode(b)) => s.input_data = <<b>>

\* C10, the split and the decoding: what follows the first comma is the
\* payload, further commas included, and it is decoded as a whole or not at
\* all: either the decoder returns and its bytes are the input buffer, or it
\* raises and there is no input buffer, the request has ended on the decode
\* error, and nothing was posted or handed to the engine.
FirstCommaAllOrNothing(s) ==
  \A q \in OddPayloads :
    s.req.image_data = DataUrl(PngSubtype, q) =>
      IF B64Decode(q).ok
      THEN s.input_data = <<B64Decode(q).val>>
      ELSE /\ s.input_data = <<>>
           /\ s.pc = "done" /\ s.outcome = "DecodeError"
           /\ s.sent = <<>> /\ s.engine = <<>>

\* C10: data URLs round-trip through the handlers' split and decoding.
C10_DataUrlRoundTrip ==
  \A r \in Reqs :
    ReadsImageData(rq[r]) => RoundTrip(rq[r]) /\ FirstCommaAllOrNothing(rq[r])

\* C10's case: the data URL of the bytes 0, 65, 255 was normalized to them,
\* and the engine was handed them.
C10_Witness ==
  \E r \in Reqs :
    /\ rq[r].req.image_data = DataUrl(PngSubtype, B64Encode(<<0, 65, 255>>))
    /\ rq[r].input_data = << <<0, 65, 255>> >>
    /\ rq[r].engine = << <<0, 65, 255>> >>

\* The handlers that work through a long-lived model handle: app.py's two
\* through bg_session, remove-background.py through the rembg module.
UsesHandle(s) == s.handler \in {"furl", "ffile", "vbg"}

\* The handle a request's handler works through is absent.
HandleAbsent(s) ==
  CASE s.handler \in {"furl", "ffile"} -> bg_session = None
    [] s.handler = "vbg" -> rembg = None
    [] OTHER -> FALSE

\* C11: with its model handle absent, a handler answers a request that
\* carries a body at once with the configuration error: no input buffer was
\* read or decoded, nothing was fetched, the engine was not called; and the
\* handle is still absent once a request has been answered with that error.
C11_AbsentHandleFailsFast ==
  \A r \in Reqs :
    LET s == rq[r]
    IN  /\ (Begun(s) /\ ~s.req.empty /\ HandleAbsent(s)) =>
             /\ s.pc = "done"
             /\ s.outcome = "ConfigurationError"
             /\ s.input_data = <<>> /\ s.fetched = <<>> /\ s.engine = <<>>
        /\ (UsesHandle(s) /\ s.pc = "done" /\ s.outcome = "ConfigurationError") =>
             HandleAbsent(s)

\* What a request's handler was given: the request, and the answers to the
\* calls the request itself made.
SameView(s, t) ==
  /\ s.handler = t.handler /\ s.req = t.req
  /\ s.fetched = t.fetched /\ s.replies = t.replies /\ s.removed = t.removed

\* C12, in every state: two answered requests that were given the same have
\* the same answer and did the same.
OwnInputDecides(s, t) ==
  (s.pc = "done" /\ t.pc = "done" /\ SameView(s, t)) =>
    /\ s.status = t.status /\ s.body = t.body /\ s.outcome = t.outcome
    /\ s.input_data = t.input_data /\ s.sent = t.sent /\ s.engine = t.engine

\* C12: the endpoint list and the module handle are never written, the
\* session handle only while the process boots and by no request; a step of
\* one request leaves the other request as it was; and what a request is
\* answered is decided by its own input and the answers to its own calls.
C12_NoSharedMutableState ==
  /\ [][ /\ api_urls' = api_urls /\ rembg' = rembg
         /\ bg_session' # bg_session => (svc = "boot" /\ rq' = rq)
         /\ rq' # rq => UNCHANGED <<api_urls, bg_session, rembg, svc>> ]_vars
  /\ [][ \A a, b \in Pair : (a # b /\ rq'[a] # rq[a]) => rq'[b] = rq[b] ]_vars
  /\ [](\A a, b \in Pair : OwnInputDecides(rq[a], rq[b]))

\* C12's case: two requests with the same input are in progress at
\* remove-background-url.py at once; the one was answered with the second
\* endpoint's output while the other, on its third post, still waits.
C12_Witness ==
  /\ rq[1].handler = "vurl" /\ rq[2].handler = "vurl"
  /\ rq[1].req = rq[2].req
  /\ rq[1].pc = "done" /\ rq[1].outcome = "Success" /\ Len(rq[1].sent) = 2
  /\ rq[2].pc = "posting" /\ Len(rq[2].sent) = 3

\* An answer that reports success rests on a backend's output: an endpoint's
\* 200 for remove-background-url.py, a return of rembg.remove for
\* remove-background.py, and the image of the answer is that output.
SuccessHasOutput(s) ==
  IsSuccess(s.body[1]) =>
    IF s.handler = "vurl"
    THEN /\ s.replies # <<>>
         /\ Answered200(s.replies[Len(s.replies)])
         /\ s.body[1] = Success(s.replies[Len(s.replies)].content)
    ELSE /\ s.removed # <<>>
         /\ s.removed[1].ok
         /\ s.body[1] = Success(s.removed[1].val)

\* C13: the two do_POST handlers of python-bg-vercel send status 200 before
\* anything else: whatever was fetched, posted, decoded or written, the status
\* was 200 by then; and a request ends with exactly one body written, which
\* reports success only on a backend's output.
C13_OneBodyAfter200 ==
  \A r \in Reqs :
    LET s == rq[r]
    IN  s.handler \in {"vurl", "vbg"} =>
          /\ Begun(s) => s.status = 200
          /\ s.pc # "done" => s.body = <<>>
          /\ s.pc = "done" =>
               /\ Len(s.body) = 1
               /\ "success" \in DOMAIN s.body[1]
               /\ SuccessHasOutput(s)

\* C13's case: remove-background.py without rembg fetched the image, then
\* answered under status 200 with the one body that reports the missing
\* library.
C13_Witness ==
  \E r \in Reqs :
    /\ rq[r].handler = "vbg" /\ rq[r].pc = "done" /\ rembg = None
    /\ rq[r].fetched # <<>>
    /\ rq[r].status = 200
    /\ rq[r].body = <<Failure(NoRembgMessage)>>
====
